---- MODULE Spec2Model ----
(***************************************************************************)
(* Message / status reconciliation of the WhatsApp clone backend.          *)
(*                                                                         *)
(*   - backend/scripts/payload_processor.py : process_path, the batch      *)
(*     ingester that walks a sorted list of JSON files (specification      *)
(*     Spec; SpecDrain for a run that finds a buffered status);            *)
(*   - backend/app/main.py : the POST /webhook, POST /messages and         *)
(*     PUT /messages/status handlers over the same collection              *)
(*     (specifications SpecApi and SpecApiSeq);                            *)
(*   - backend/app/models.py : MessageModel, two more writers of the       *)
(*     collection;                                                         *)
(*   - all of them on one database, each giving up control at its awaited  *)
(*     collection calls (specification SpecShared).                        *)
(*                                                                         *)
(* A MongoDB collection is a sequence of documents in insertion order;     *)
(* find_one / update_one / delete_one act on the first matching document.  *)
(***************************************************************************)
EXTENDS Integers, Sequences, FiniteSets, TLC

VARIABLES
    messages_col,   \* db.processed_messages
    pending_col,    \* db.pending_status_updates
    nfiles,         \* len(sorted(files)) of the running batch
    idx,            \* number of files the for loop has handled
    processed,      \* process_path counters
    skipped,
    errors,
    pc,             \* "start" before the file list is built, "loop" while in the for
                    \* loop, "done" after the summary, "invalid" after "Invalid path"
    last,           \* what the last handled file was and what was printed for it
    prev,           \* the same for the file before it
    body,           \* the loop body of the file the run is handling
    unique_index,   \* the unique index on meta_msg_id of processed_messages: "none",
                    \* "building" (asked for, not awaited), "built" or "failed"
    other,          \* the loop body of a file another run of the script handles
    nother,         \* number of files that other run has taken up
    ocount,         \* the counters of that other run
    returned,       \* what the last call of a MessageModel method gave its caller
    calls,          \* the HTTP calls of the API, in the order they arrived
    raw,            \* the argument of a call of normalize_webhook_payload
    normalized      \* what that call returned, once it has

vars == <<messages_col, pending_col, nfiles, idx, processed, skipped, errors,
          pc, last, prev, body, unique_index, other, nother, ocount, returned, calls,
          raw, normalized>>

apiVars == <<calls>>
normVars == <<raw, normalized>>
otherVars == <<unique_index, other, nother, ocount>>
modelVars == <<returned>>

----------------------------------------------------------------------------
(* Bounds *)

MaxFiles == 2
MaxCalls == 2
MaxOther == 1
MaxStored == 3

----------------------------------------------------------------------------
(* Values *)

\* Python None: a key that is missing from a payload, and what .get() gives for it
None == "None"

Ids == {"X", "Y"}

\* status strings carried by payloads; "failed" is a provider status outside the enum
Statuses == {"sent", "delivered", "read", "failed"}

\* the two message bodies the inputs are drawn from
Bodies ==
    { [wa_id |-> "c1", text |-> "hi", direction |-> None, timestamp |-> "t1"],
      [wa_id |-> "c2", text |-> "yo", direction |-> "outbound", timestamp |-> None] }

\* a table that lets a delivered message fall back to sent
VALID_STATUS_TRANSITIONS_Backward(current) ==
    CASE current = "sent" -> {"delivered", "read"}
      [] current = "delivered" -> {"sent", "read"}
      [] current = "read" -> {}
      [] OTHER -> {}

\* the status state machine of the application
VALID_STATUS_TRANSITIONS(current) ==
    CASE current = "sent" -> {"delivered", "read"}
      [] current = "delivered" -> {"read"}
      [] current = "read" -> {}
      [] OTHER -> {}

\* canonical ("already normalized") payloads
MessagePayloads ==
    { [type |-> "message", meta_msg_id |-> m, status |-> s, wa_id |-> b.wa_id,
       text |-> b.text, direction |-> b.direction, timestamp |-> b.timestamp] :
         m \in Ids \cup {None}, s \in Statuses \cup {None}, b \in Bodies }

StatusPayloads ==
    { [type |-> "status", meta_msg_id |-> m, status |-> s] :
         m \in Ids \cup {None}, s \in Statuses \cup {None} }

----------------------------------------------------------------------------
(* JSON values, as json.load gives them: each value carries its Python type. *)
(* A dict is a function from its keys; a list is a sequence.                 *)

JNull == [t |-> "null", v |-> 0]
JStr(x) == [t |-> "str", v |-> x]
JNum(n) == [t |-> "num", v |-> n]
JList(seq) == [t |-> "list", v |-> seq]
JDict(f) == [t |-> "dict", v |-> f]
EmptyDict == JDict([k \in {} |-> JNull])

\* an exception on its way up
Raise == [t |-> "raise", v |-> 0]

\* bool(x)
Truthy(j) ==
    CASE j.t = "null" -> FALSE
      [] j.t = "str" -> j.v # ""
      [] j.t = "num" -> j.v # 0
      [] j.t = "list" -> Len(j.v) > 0
      [] j.t = "dict" -> DOMAIN j.v # {}
      [] OTHER -> FALSE

\* a or b
Or(a, b) ==
    IF a = Raise THEN Raise
    ELSE IF Truthy(a) THEN a ELSE b

\* j.get(k, default): AttributeError unless j is a dict
Get(j, k, default) ==
    IF j.t # "dict" THEN Raise
    ELSE IF k \in DOMAIN j.v THEN j.v[k] ELSE default

\* first character of the strings the inputs hold
FirstChar(x) == IF x = "abc" THEN "a" ELSE x

\* j[0]: IndexError on an empty list or string, KeyError on a dict (its keys are
\* strings), TypeError on a number or None
Index0(j) ==
    CASE j.t = "list" -> IF Len(j.v) > 0 THEN j.v[1] ELSE Raise
      [] j.t = "str" -> IF j.v # "" THEN JStr(FirstChar(j.v)) ELSE Raise
      [] OTHER -> Raise

\* datetime.fromtimestamp(int(ts), tz=utc).isoformat(), None when it raises
IsoOf(ts) ==
    CASE ts = JStr("0") -> JStr("1970-01-01T00:00:00+00:00")
      [] ts = JNum(60) -> JStr("1970-01-01T00:01:00+00:00")
      [] OTHER -> JNull

\* timestamp_iso or datetime.now(timezone.utc).isoformat()
TimestampOf(ts) ==
    LET timestamp_iso == IF Truthy(ts) THEN IsoOf(ts) ELSE JNull
    IN IF Truthy(timestamp_iso) THEN timestamp_iso ELSE JStr("now")

\* a dict built from values of which one may be an exception
DictOrRaise(f) == IF \E k \in DOMAIN f : f[k] = Raise THEN Raise ELSE JDict(f)

\* the "inbound messages" block: value["messages"] is truthy
MessageFrom(value) ==
    LET msg == Index0(Get(value, "messages", JNull))
        contacts == Get(value, "contacts", JList(<<>>))
        wa_id == IF Truthy(contacts)
                 THEN Or(Get(Index0(contacts), "wa_id", JNull),
                         Get(Index0(contacts), "waId", JNull))
                 ELSE JNull
        text == IF Get(msg, "text", JNull) = Raise THEN Raise
                ELSE IF Get(msg, "text", JNull).t = "dict"
                THEN Get(Get(msg, "text", JNull), "body", JStr(""))
                ELSE IF Get(msg, "message", JNull).t = "dict"
                THEN Get(Get(msg, "message", JNull), "body", JStr(""))
                ELSE JStr("")
        meta_msg_id == Or(Get(msg, "id", JNull), Get(msg, "mid", JNull))
        ts == Or(Get(msg, "timestamp", JNull), Get(msg, "ts", JNull))
    IN IF ts = Raise THEN Raise
       ELSE DictOrRaise([type |-> JStr("message"),
                         wa_id |-> wa_id,
                         meta_msg_id |-> meta_msg_id,
                         text |-> text,
                         timestamp |-> TimestampOf(ts),
                         direction |-> JStr("inbound"),
                         status |-> JStr("delivered")])

\* the "status updates" block: value["statuses"] is truthy
StatusFrom(value) ==
    LET st == Index0(Get(value, "statuses", JNull))
        ts == Get(st, "timestamp", JNull)
    IN IF ts = Raise THEN Raise
       ELSE DictOrRaise([type |-> JStr("status"),
                         meta_msg_id |-> Get(st, "id", JNull),
                         status |-> Get(st, "status", JNull),
                         timestamp |-> TimestampOf(ts)])

\* the body of the try block; JNull when it falls through to "Not recognized"
Envelope(meta) ==
    LET entry == IF Get(meta, "entry", JList(<<>>)) = Raise THEN Raise
                 ELSE Index0(Get(meta, "entry", JList(<<>>)))
        changes == Get(entry, "changes", JList(<<>>))
        change == IF changes = Raise THEN Raise ELSE Index0(changes)
        value == Get(change, "value", EmptyDict)
        messages == Get(value, "messages", JNull)
        statuses == Get(value, "statuses", JNull)
    IN IF messages = Raise THEN Raise
       ELSE IF Truthy(messages) THEN MessageFrom(value)
       ELSE IF Truthy(statuses) THEN StatusFrom(value)
       ELSE JNull

\* a try block that lets the exception through
Try_NoExcept(x) == x

\* try: ... except Exception: return None
Try(x) == IF x = Raise THEN JNull ELSE x

\* an envelope parser that looks at statuses before messages
normalize_webhook_payload_StatusesFirst(r) ==
    IF r.t # "dict" THEN JNull
    ELSE IF Get(r, "type", JNull) \in {JStr("message"), JStr("status")} THEN r
    ELSE LET meta == Or(Or(Get(r, "metaData", JNull), Get(r, "meta_data", JNull)), EmptyDict)
             value == Get(Index0(Get(Index0(Get(meta, "entry", JList(<<>>))),
                                     "changes", JList(<<>>))), "value", EmptyDict)
         IN IF ~Truthy(meta) \/ Get(meta, "entry", JList(<<>>)) = Raise
               \/ Get(Index0(Get(meta, "entry", JList(<<>>))), "changes", JList(<<>>)) = Raise
               \/ Get(value, "statuses", JNull) = Raise
            THEN JNull
            ELSE IF Truthy(Get(value, "statuses", JNull)) THEN Try(StatusFrom(value))
            ELSE IF Truthy(Get(value, "messages", JNull)) THEN Try(MessageFrom(value))
            ELSE JNull

\* normalize_webhook_payload(raw): the payload, or JNull for None
normalize_webhook_payload(r) ==
    IF r.t # "dict" THEN JNull
    ELSE IF Get(r, "type", JNull) \in {JStr("message"), JStr("status")} THEN r
    ELSE LET meta == Or(Or(Get(r, "metaData", JNull), Get(r, "meta_data", JNull)), EmptyDict)
         IN IF Truthy(meta) THEN Try(Envelope(meta)) ELSE JNull

----------------------------------------------------------------------------
(* The files of a batch: JSON documents of the shapes the parser tells apart *)

\* a key the document does not have
Absent == [t |-> "absent", v |-> 0]

\* the dict of the keys that are there
MkDict(f) == JDict([k \in {x \in DOMAIN f : f[x] # Absent} |-> f[k]])

\* first elements of value["messages"]
RawMessages ==
    { JDict([id |-> JStr("X"), text |-> JDict([body |-> JStr("hi")]),
             timestamp |-> JStr("0")]),
      JDict([mid |-> JStr("Y"), message |-> JDict([body |-> JStr("yo")]),
             ts |-> JNum(60)]),
      JDict([id |-> JStr("X"), timestamp |-> JStr("soon")]),
      JDict([text |-> JStr("hi")]),
      JStr("abc") }

\* first elements of value["statuses"]
RawStatuses ==
    { JDict([id |-> JStr("X"), status |-> JStr("read"), timestamp |-> JStr("0")]),
      JDict([id |-> JStr("Y"), status |-> JStr("sent")]),
      JNum(7) }

MessagesFields ==
    {Absent, JList(<<>>), JStr("abc")} \cup {JList(<<m>>) : m \in RawMessages}
      \cup {JList(<<JDict([id |-> JStr("Y")]), JDict([id |-> JStr("X")])>>)}

StatusesFields == {Absent, JList(<<>>)} \cup {JList(<<st>>) : st \in RawStatuses}

ContactsFields ==
    { Absent, JStr("abc"), JList(<<JStr("abc")>>),
      JList(<<JDict([wa_id |-> JStr("c1")])>>),
      JList(<<JDict([waId |-> JStr("c2")])>>) }

\* value objects
RawValues ==
    { MkDict([messages |-> m, statuses |-> st, contacts |-> c]) :
        m \in MessagesFields, st \in StatusesFields, c \in ContactsFields }

\* the provider envelope around a value
EnvelopeOf(value) ==
    JDict([entry |-> JList(<<JDict([changes |-> JList(<<JDict([value |-> value])>>)])>>)])

\* envelopes under metaData, under meta_data, after an empty metaData, and bare
WellFormedFiles ==
    {JDict([metaData |-> EnvelopeOf(v)]) : v \in RawValues}
      \cup {JDict([meta_data |-> EnvelopeOf(v)]) : v \in RawValues}
      \cup {JDict([metaData |-> EmptyDict, meta_data |-> EnvelopeOf(v)]) : v \in RawValues}
      \cup {EnvelopeOf(v) : v \in RawValues}

\* documents that are not what the parser expects
MalformedFiles ==
    { JNull, JNum(7), JStr("abc"), JList(<<>>), EmptyDict,
      JDict([type |-> JStr("other")]),
      JDict([type |-> JStr("other"), metaData |-> JNull]),
      JDict([metaData |-> JStr("abc")]),
      JDict([metaData |-> JNum(7)]),
      JDict([metaData |-> JList(<<JNum(7)>>)]),
      JDict([metaData |-> JDict([entry |-> JList(<<>>)])]),
      JDict([metaData |-> JDict([entry |-> EmptyDict])]),
      JDict([metaData |-> JDict([entry |-> JNull])]),
      JDict([metaData |-> JDict([entry |-> JList(<<JStr("abc")>>)])]),
      JDict([metaData |-> JDict([entry |-> JList(<<EmptyDict>>)])]),
      JDict([metaData |-> JDict([entry |-> JList(<<JDict([changes |-> JList(<<>>)])>>)])]),
      JDict([metaData |-> JDict([entry |-> JList(<<JDict([changes |-> JNum(7)])>>)])]),
      JDict([metaData |-> JDict([entry |->
                JList(<<JDict([changes |-> JList(<<EmptyDict>>)])>>)])]),
      JDict([metaData |-> JDict([entry |->
                JList(<<JDict([changes |-> JList(<<JDict([value |-> JStr("abc")])>>)])>>)])]) }

\* a canonical payload as the JSON document that holds it
ToJson(payload) ==
    LET S(x) == IF x = None THEN Absent ELSE JStr(x)
    IN MkDict([k \in DOMAIN payload |-> S(payload[k])])

\* payload.get(k) of a normalized payload, as the batch loop reads it
Field(n, k) ==
    LET x == Get(n, k, JNull)
    IN IF x.t = "str" THEN x.v ELSE None

\* the normalized payload as the loop body sees it
AsPayload(n) ==
    IF Field(n, "type") = "message"
    THEN [type |-> "message", meta_msg_id |-> Field(n, "meta_msg_id"),
          status |-> Field(n, "status"), wa_id |-> Field(n, "wa_id"),
          text |-> Field(n, "text"), direction |-> Field(n, "direction"),
          timestamp |-> Field(n, "timestamp")]
    ELSE [type |-> Field(n, "type"), meta_msg_id |-> Field(n, "meta_msg_id"),
          status |-> Field(n, "status")]

\* every document the parser is run on
RawPayloads ==
    WellFormedFiles \cup MalformedFiles
      \cup {ToJson(p) : p \in MessagePayloads} \cup {ToJson(p) : p \in StatusPayloads}

\* the files a batch directory holds: canonical payloads, provider envelopes
\* (a message, a status, both, neither) and documents of no known shape
BatchFiles ==
    {ToJson(p) : p \in MessagePayloads} \cup {ToJson(p) : p \in StatusPayloads}
      \cup MalformedFiles
      \cup { JDict([metaData |-> EnvelopeOf(MkDict([messages |-> m, statuses |-> st,
                                                    contacts |-> c]))]) :
               m \in {Absent, JList(<<>>),
                      JList(<<JDict([id |-> JStr("X"), text |-> JDict([body |-> JStr("hi")]),
                                     timestamp |-> JStr("0")])>>)},
               st \in {Absent,
                       JList(<<JDict([id |-> JStr("X"), status |-> JStr("read"),
                                      timestamp |-> JStr("0")])>>)},
               c \in {JList(<<JDict([wa_id |-> JStr("c1")])>>)} }

\* payload = normalize_webhook_payload(raw), for every file
NormalizedFiles == {normalize_webhook_payload(r) : r \in BatchFiles}

\* the files for which "if not payload" holds
UnknownFiles == {r \in BatchFiles : ~Truthy(normalize_webhook_payload(r))}

\* the payloads that reach the message branch
MessageFiles ==
    {AsPayload(n) : n \in {x \in NormalizedFiles : Truthy(x) /\ Field(x, "type") = "message"}}

\* the payloads that reach the status branch
StatusFiles ==
    {AsPayload(n) : n \in {x \in NormalizedFiles : Truthy(x) /\ Field(x, "type") = "status"}}

----------------------------------------------------------------------------
(* Collection primitives *)

\* index of the first document whose meta_msg_id is mid, 0 when there is none
find_one(col, mid) ==
    IF \E i \in 1..Len(col) : col[i].meta_msg_id = mid
    THEN CHOOSE i \in 1..Len(col) :
            /\ col[i].meta_msg_id = mid
            /\ \A j \in 1..(i - 1) : col[j].meta_msg_id # mid
    ELSE 0

Has(col, mid) == find_one(col, mid) # 0

\* stored status of mid (None when there is no record)
StatusOf(col, mid) == IF Has(col, mid) THEN col[find_one(col, mid)].status ELSE None

\* buffered status of mid (None when there is no entry)
PendingOf(col, mid) == IF Has(col, mid) THEN col[find_one(col, mid)].new_status ELSE None

\* number of documents of col for mid
CountOf(col, mid) == Cardinality({i \in 1..Len(col) : col[i].meta_msg_id = mid})

insert_one(col, doc) == Append(col, doc)

\* an update that replaces the document instead of setting one field
update_one_status_Replace(col, mid, s) ==
    LET i == find_one(col, mid)
    IN IF i = 0 THEN col
       ELSE [col EXCEPT ![i] = [k \in DOMAIN col[i] |->
                                  IF k = "status" THEN s
                                  ELSE IF k = "meta_msg_id" THEN mid ELSE None]]

\* update_one({"meta_msg_id": mid}, {"$set": {"status": s}}): the collection after
update_one_status(col, mid, s) ==
    LET i == find_one(col, mid)
    IN IF i = 0 THEN col ELSE [col EXCEPT ![i].status = s]

\* ... and its result.modified_count: a matched document that already holds s
\* is not counted as modified
modified_count(col, mid, s) ==
    LET i == find_one(col, mid)
    IN IF i # 0 /\ col[i].status # s THEN 1 ELSE 0

delete_one(col, mid) ==
    LET i == find_one(col, mid)
    IN IF i = 0 THEN col
       ELSE [k \in 1..(Len(col) - 1) |-> IF k < i THEN col[k] ELSE col[k + 1]]

\* an upsert that writes nothing
upsert_pending_Drops(col, mid, s) == col

\* an insert where the code upserts
upsert_pending_AlwaysInsert(col, mid, s) ==
    Append(col, [meta_msg_id |-> mid, new_status |-> s, received_at |-> "now"])

\* pending_col.update_one(..., {"$set": {new_status, received_at}}, upsert=True)
upsert_pending(col, mid, s) ==
    LET i == find_one(col, mid)
    IN IF i = 0
       THEN Append(col, [meta_msg_id |-> mid, new_status |-> s, received_at |-> "now"])
       ELSE [col EXCEPT ![i].new_status = s, ![i].received_at = "now"]

----------------------------------------------------------------------------
(* process_path: the body of the for loop.  The coroutine gives up control   *)
(* at every awaited collection call, so the body is a chain of steps: each   *)
(* step is one collection call answering, with the code that runs from       *)
(* there to the next call (or to the end of the body).  Reading the file and *)
(* normalizing it touch no shared state and belong to the first step.        *)

\* the document built from a message payload
MakeDoc(payload) ==
    [wa_id |-> payload.wa_id,
     text |-> payload.text,
     meta_msg_id |-> payload.meta_msg_id,
     direction |-> IF payload.direction = None THEN "inbound" ELSE payload.direction,
     status |-> IF payload.status = None THEN "delivered" ELSE payload.status,
     timestamp |-> IF payload.timestamp = None THEN "now" ELSE payload.timestamp]

\* doc before it is built and after it has been inserted
NoDoc ==
    [wa_id |-> None, text |-> None, meta_msg_id |-> None, direction |-> None,
     status |-> None, timestamp |-> None]

\* the local variables of the loop body between two awaits; m0 and p0 are the
\* collections as they were when the file was taken up
Idle ==
    [pc |-> "idle",     \* the call awaited next
     type |-> None,     \* payload["type"]
     mid |-> None,      \* mid
     status |-> None,   \* payload.get("status")
     doc |-> NoDoc,     \* doc
     dup |-> FALSE,     \* existing was found
     pend |-> None,     \* pending["new_status"]
     m0 |-> <<>>,
     p0 |-> <<>>]

\* what one step gives: the collections, the locals, the line printed for the
\* file when the body is left (None while it is not) and the counter raised
Result(msgs, pend, b, out, count) ==
    [messages |-> msgs, pending |-> pend, body |-> b, out |-> out, count |-> count]

\* existing = await messages_col.find_one({"meta_msg_id": mid})
\* a lookup that never finds the record
existing_NotFound(msgs, mid) == FALSE

\* await messages_col.find_one({"meta_msg_id": mid}) gave a document
existing(msgs, mid) == find_one(msgs, mid) # 0

\* a drain that does not apply the entry
drain_update_NoUpdate(msgs, mid, s) == msgs

\* await messages_col.update_one(..., {"$set": {"status": pending["new_status"]}})
drain_update(msgs, mid, s) == update_one_status(msgs, mid, s)

\* a drain that leaves the applied entry in the buffer
drain_delete_Keeps(pend, mid) == pend

\* await pending_col.delete_one({"meta_msg_id": mid})
drain_delete(pend, mid) == delete_one(pend, mid)

\* the file is read and normalized and the first collection call answers:
\* find_one for a message, update_one for a status
Begin(msgs, pend, payload) ==
    LET mid == payload.meta_msg_id
        s == payload.status
        b == [Idle EXCEPT !.type = payload.type, !.mid = mid, !.status = s,
                          !.m0 = msgs, !.p0 = pend]
    IN IF mid = None
       THEN Result(msgs, pend, Idle, "SKIP_NO_ID", "skipped")
       ELSE IF payload.type = "message"
       THEN IF existing(msgs, mid)
            THEN Result(msgs, pend, [b EXCEPT !.pc = "find_pending", !.dup = TRUE],
                        None, "skipped")
            ELSE Result(msgs, pend, [b EXCEPT !.pc = "insert", !.doc = MakeDoc(payload)],
                        None, "none")
       ELSE IF modified_count(msgs, mid, s) > 0
            THEN Result(update_one_status(msgs, mid, s), pend, Idle, "UPDATED", "processed")
            ELSE Result(update_one_status(msgs, mid, s), pend, [b EXCEPT !.pc = "upsert"],
                        None, "none")

\* the call the body waits for answers. insert_one raises DuplicateKeyError
\* when the collection has the unique index on meta_msg_id and holds the id;
\* "except Exception" then counts the file as an error
Step(msgs, pend, b, unique) ==
    CASE b.pc = "insert" ->
           IF unique /\ Has(msgs, b.mid)
           THEN Result(msgs, pend, Idle, "insert", "errors")
           ELSE Result(insert_one(msgs, b.doc), pend,
                       [b EXCEPT !.pc = "find_pending", !.doc = NoDoc], None, "processed")
      [] b.pc = "find_pending" ->
           IF Has(pend, b.mid)
           THEN Result(msgs, pend, [b EXCEPT !.pc = "update", !.pend = PendingOf(pend, b.mid)],
                       None, "none")
           ELSE Result(msgs, pend, Idle, IF b.dup THEN "DUPLICATE" ELSE "INSERTED", "none")
      [] b.pc = "update" ->
           Result(drain_update(msgs, b.mid, b.pend), pend, [b EXCEPT !.pc = "delete"],
                  None, "none")
      [] b.pc = "delete" ->
           Result(msgs, drain_delete(pend, b.mid), Idle,
                  IF b.dup THEN "DUPLICATE_APPLIED" ELSE "INSERTED_APPLIED", "none")
      [] b.pc = "upsert" ->
           Result(msgs, upsert_pending(pend, b.mid, b.status), Idle, "PENDING", "processed")
      [] OTHER -> Result(msgs, pend, b, None, "none")

\* the next step of a body that is not left yet; the counter the body has
\* raised so far stays raised
Continue(r) ==
    IF r.out # None
    THEN r
    ELSE LET n == Step(r.messages, r.pending, r.body, FALSE)
         IN [n EXCEPT !.count = IF n.count = "none" THEN r.count ELSE n.count]

\* the whole body for one payload when no other writer comes between its
\* awaits: at most four calls follow the first
Handle(msgs, pend, payload) ==
    Continue(Continue(Continue(Continue(Begin(msgs, pend, payload)))))

----------------------------------------------------------------------------
(* Initial state *)

NoLast == [type |-> None, mid |-> None, status |-> None, out |-> None]

\* processed = skipped = errors = 0
NoCount == [processed |-> 0, skipped |-> 0, errors |-> 0]

\* no MessageModel method has been called
NoReturn == [method |-> None, raised |-> FALSE, modified_count |-> 0]

\* a run of the script on an empty database. The unique index on meta_msg_id
\* is created by the API at startup; a run that is the only writer never
\* inserts an id it has found, so the index makes no difference to it
Init ==
    /\ messages_col = <<>>
    /\ pending_col = <<>>
    /\ nfiles = 0
    /\ idx = 0
    /\ processed = 0
    /\ skipped = 0
    /\ errors = 0
    /\ pc = "start"
    /\ last = NoLast
    /\ prev = NoLast
    /\ body = Idle
    /\ unique_index = "none"
    /\ other = Idle
    /\ nother = 0
    /\ ocount = NoCount
    /\ returned = NoReturn
    /\ calls = <<>>
    /\ raw = JNull
    /\ normalized = JNull

----------------------------------------------------------------------------
(* process_path: one action per step of the loop *)

\* the path is a .json file or a directory: files holds the one file, or the
\* .json files found under the directory
ListFiles ==
    /\ pc = "start"
    /\ nfiles' \in 0..MaxFiles
    /\ pc' = "loop"
    /\ UNCHANGED <<messages_col, pending_col, idx, processed, skipped, errors, last, prev,
                   body>>
    /\ UNCHANGED <<apiVars, normVars, otherVars, modelVars>>

\* the path is neither: print "Invalid path" and return, with no loop, no
\* summary and the client left open
InvalidPath ==
    /\ pc = "start"
    /\ pc' = "invalid"
    /\ UNCHANGED <<messages_col, pending_col, nfiles, idx, processed, skipped, errors,
                   last, prev, body>>
    /\ UNCHANGED <<apiVars, normVars, otherVars, modelVars>>

InLoop == pc = "loop" /\ idx < nfiles /\ body.pc = "idle"

\* json.load raises: errors += 1
ReadError ==
    /\ InLoop
    /\ idx' = idx + 1
    /\ errors' = errors + 1
    /\ last' = [type |-> "unreadable", mid |-> None, status |-> None, out |-> "ERROR"]
    /\ prev' = last
    /\ UNCHANGED <<messages_col, pending_col, nfiles, processed, skipped, pc, body>>
    /\ UNCHANGED <<apiVars, normVars, otherVars, modelVars>>

\* an unknown payload counted as a failure
SkipUnknown_CountsAsError ==
    /\ InLoop
    /\ UnknownFiles # {}
    /\ idx' = idx + 1
    /\ errors' = errors + 1
    /\ last' = [type |-> "unknown", mid |-> None, status |-> None, out |-> "SKIP_UNKNOWN"]
    /\ prev' = last
    /\ UNCHANGED <<messages_col, pending_col, nfiles, processed, skipped, pc, body>>
    /\ UNCHANGED <<apiVars, normVars, otherVars, modelVars>>

\* normalize_webhook_payload gives None: skipped += 1
SkipUnknown ==
    /\ InLoop
    /\ UnknownFiles # {}
    /\ idx' = idx + 1
    /\ skipped' = skipped + 1
    /\ last' = [type |-> "unknown", mid |-> None, status |-> None, out |-> "SKIP_UNKNOWN"]
    /\ prev' = last
    /\ UNCHANGED <<messages_col, pending_col, nfiles, processed, errors, pc, body>>
    /\ UNCHANGED <<apiVars, normVars, otherVars, modelVars>>

\* the run takes the result r of a step of the body whose payload has the
\* given type, id and status
Advance(r, type, mid, status) ==
    /\ messages_col' = r.messages
    /\ pending_col' = r.pending
    /\ body' = r.body
    /\ processed' = IF r.count = "processed" THEN processed + 1 ELSE processed
    /\ skipped' = IF r.count = "skipped" THEN skipped + 1 ELSE skipped
    /\ errors' = IF r.count = "errors" THEN errors + 1 ELSE errors
    /\ IF r.out # None
       THEN /\ idx' = idx + 1
            /\ last' = [type |-> type, mid |-> mid, status |-> status, out |-> r.out]
            /\ prev' = last
       ELSE UNCHANGED <<idx, last, prev>>
    /\ UNCHANGED <<nfiles, pc>>
    /\ UNCHANGED <<apiVars, normVars, otherVars, modelVars>>

\* the next file holds payload: it is read and its first call answers
BeginFile(payload) ==
    /\ InLoop
    /\ Advance(Begin(messages_col, pending_col, payload),
               payload.type, payload.meta_msg_id, payload.status)

IngestMessage == \E payload \in MessageFiles : BeginFile(payload)

IngestStatus == \E payload \in StatusFiles : BeginFile(payload)

\* the call the body waits for answers
StepBody ==
    /\ pc = "loop"
    /\ body.pc # "idle"
    /\ Advance(Step(messages_col, pending_col, body, unique_index = "built"),
               body.type, body.mid, body.status)

\* the loop is over: print the summary, close the client
Summary ==
    /\ pc = "loop"
    /\ idx = nfiles
    /\ body.pc = "idle"
    /\ pc' = "done"
    /\ UNCHANGED <<messages_col, pending_col, nfiles, idx, processed, skipped, errors,
                   last, prev, body>>
    /\ UNCHANGED <<apiVars, normVars, otherVars, modelVars>>

Next ==
    \/ ListFiles
    \/ InvalidPath
    \/ ReadError
    \/ SkipUnknown
    \/ IngestMessage
    \/ IngestStatus
    \/ StepBody
    \/ Summary

\* one run of the script, the only writer of its database
Spec == Init /\ [][Next]_vars

\* the buffer as an earlier run of the script on one StatusEvent file for X
\* left it on the empty database
BufferedBefore ==
    {Handle(<<>>, <<>>, s).pending : s \in {p \in StatusPayloads : p.meta_msg_id = "X"}}

\* a run of the script on a database that holds no record and at most one
\* buffered status, that of X
InitDrain ==
    /\ messages_col = <<>>
    /\ pending_col \in {<<>>} \cup BufferedBefore
    /\ nfiles = 0
    /\ idx = 0
    /\ processed = 0
    /\ skipped = 0
    /\ errors = 0
    /\ pc = "start"
    /\ last = NoLast
    /\ prev = NoLast
    /\ body = Idle
    /\ unique_index = "none"
    /\ other = Idle
    /\ nother = 0
    /\ ocount = NoCount
    /\ returned = NoReturn
    /\ calls = <<>>
    /\ raw = JNull
    /\ normalized = JNull

\* one run of the script, the only writer, after an earlier run
SpecDrain == InitDrain /\ [][Next]_vars

----------------------------------------------------------------------------
(* The API of backend/app/main.py.  Each HTTP call is a coroutine; it gives  *)
(* up control at every await (a store operation, sio.emit), so the steps of  *)
(* different calls interleave at those points.                               *)

\* wa_id values a webhook status payload may carry (None: the key is missing)
Rooms == {None, "c1", "c2"}

\* the ids, the new_status values and the message statuses the calls are drawn from
ApiIds == {"X"}
ApiStatuses == {"sent", "delivered", "read"}
MessageStatuses == {None, "sent", "read", "failed"}

NewCall(kind, mid, status, wa_id, text, at) ==
    [kind |-> kind, mid |-> mid, status |-> status, wa_id |-> wa_id, text |-> text,
     pc |-> at,          \* the await the coroutine is suspended at, or "done"
     code |-> 0,         \* HTTP status of the response, 0 while running
     cur |-> None,       \* current_status read by find_one
     found |-> FALSE,    \* whether find_one returned a document
     event |-> None,     \* event name given to sio.emit
     room |-> None,      \* room given to sio.emit
     wrote |-> FALSE,    \* whether a store operation of the call changed the store
     emits |-> 0]        \* number of sio.emit calls made

\* the stored document of db_insert_message
ApiDoc(c) ==
    [wa_id |-> c.wa_id,
     text |-> c.text,
     meta_msg_id |-> c.mid,
     direction |-> IF c.kind = "create_message" THEN "outbound" ELSE "inbound",
     status |-> IF c.kind = "create_message" THEN "sent"
                ELSE IF c.status = None THEN "delivered" ELSE c.status,
     timestamp |-> "utcnow"]

\* db_update_message_status up to its second await: the lookup and the validation
db_update_lookup(msgs, mid, new_status) ==
    LET i == find_one(msgs, mid)
    IN IF i = 0
       THEN [outcome |-> "not_found", cur |-> None]
       ELSE IF new_status \notin VALID_STATUS_TRANSITIONS(msgs[i].status)
       THEN [outcome |-> "invalid", cur |-> msgs[i].status]
       ELSE [outcome |-> "update", cur |-> msgs[i].status]

Running(i) == i \in 1..Len(calls) /\ calls[i].pc # "done"
AllDone == \A i \in 1..Len(calls) : calls[i].pc = "done"
StatusKinds == {"webhook_status", "put_status"}
MessageKinds == {"webhook_message", "create_message"}

\* the store as a server finds it at startup: empty, or holding message X
SeedStores ==
    {<<>>} \cup
    { <<[wa_id |-> "c1", text |-> "hi", meta_msg_id |-> "X", direction |-> "inbound",
         status |-> s, timestamp |-> "utcnow"]>> : s \in {"sent", "delivered", "read"} }

InitApi ==
    /\ messages_col \in SeedStores
    /\ pending_col = <<>>
    /\ nfiles = 0
    /\ idx = 0
    /\ processed = 0
    /\ skipped = 0
    /\ errors = 0
    /\ pc = "done"
    /\ last = NoLast
    /\ prev = NoLast
    /\ body = Idle
    /\ unique_index = "built"
    /\ other = Idle
    /\ nother = 0
    /\ ocount = NoCount
    /\ returned = NoReturn
    /\ calls = <<>>
    /\ raw = JNull
    /\ normalized = JNull

ApiFrame == UNCHANGED <<pending_col, nfiles, idx, processed, skipped, errors, pc, last, prev,
                        body, unique_index, other, nother, ocount, returned, raw, normalized>>

\* POST /webhook with type "status", or PUT /messages/status, arrives
StartStatusCall ==
    /\ Len(calls) < MaxCalls
    /\ \E kind \in StatusKinds, mid \in ApiIds, s \in ApiStatuses, wa \in Rooms :
         /\ kind = "put_status" => wa = None
         /\ calls' = Append(calls, NewCall(kind, mid, s, wa, None, "find"))
    /\ UNCHANGED messages_col
    /\ ApiFrame

\* POST /webhook with type "message", or POST /messages, arrives
StartMessageCall ==
    /\ Len(calls) < MaxCalls
    /\ \E kind \in MessageKinds, mid \in ApiIds, s \in MessageStatuses, wa \in {"c1", "c2"} :
         /\ kind = "create_message" => s = "sent"
         /\ calls' = Append(calls, NewCall(kind, mid, s, wa, "yo", "insert"))
    /\ UNCHANGED messages_col
    /\ ApiFrame

\* db_update_message_status: find_one answers; not found gives 0 and the handler
\* raises MessageNotFound, an invalid transition raises InvalidStatusTransition
FindStep(i) ==
    /\ Running(i)
    /\ calls[i].pc = "find"
    /\ LET r == db_update_lookup(messages_col, calls[i].mid, calls[i].status)
       IN calls' = [calls EXCEPT
            ![i].cur = r.cur,
            ![i].found = (r.outcome # "not_found"),
            ![i].code = CASE r.outcome = "not_found" -> 404
                          [] r.outcome = "invalid" -> 400
                          [] OTHER -> 0,
            ![i].pc = IF r.outcome = "update" THEN "update" ELSE "done"]
    /\ UNCHANGED messages_col
    /\ ApiFrame

\* an update step that notifies whatever modified_count says
UpdateStep_AlwaysEmit(i) ==
    /\ Running(i)
    /\ calls[i].pc = "update"
    /\ messages_col' = update_one_status(messages_col, calls[i].mid, calls[i].status)
    /\ calls' = [calls EXCEPT
          ![i].pc = "emit",
          ![i].wrote = (modified_count(messages_col, calls[i].mid, calls[i].status) # 0),
          ![i].event = "status_update",
          ![i].room = IF calls[i].wa_id = None THEN "global" ELSE calls[i].wa_id]
    /\ ApiFrame

\* db_update_message_status: update_one answers; modified_count 0 makes the
\* handler raise MessageNotFound
UpdateStep(i) ==
    /\ Running(i)
    /\ calls[i].pc = "update"
    /\ messages_col' = update_one_status(messages_col, calls[i].mid, calls[i].status)
    /\ IF modified_count(messages_col, calls[i].mid, calls[i].status) = 0
       THEN calls' = [calls EXCEPT ![i].code = 404, ![i].pc = "done"]
       ELSE IF calls[i].kind = "put_status"
       THEN calls' = [calls EXCEPT ![i].pc = "refetch", ![i].wrote = TRUE]
       ELSE calls' = [calls EXCEPT
                ![i].pc = "emit",
                ![i].wrote = TRUE,
                ![i].event = "status_update",
                ![i].room = IF calls[i].wa_id = None THEN "global" ELSE calls[i].wa_id]
    /\ ApiFrame

\* update_message_status_endpoint: find_one for the room of the notification
RefetchStep(i) ==
    /\ Running(i)
    /\ calls[i].pc = "refetch"
    /\ calls' = [calls EXCEPT
          ![i].pc = "emit",
          ![i].event = "status_update",
          ![i].room = messages_col[find_one(messages_col, calls[i].mid)].wa_id]
    /\ UNCHANGED messages_col
    /\ ApiFrame

\* db_insert_message: insert_one answers; the unique index on meta_msg_id makes
\* it raise for a stored id, which becomes HTTP 500
InsertStep(i) ==
    /\ Running(i)
    /\ calls[i].pc = "insert"
    /\ IF find_one(messages_col, calls[i].mid) # 0
       THEN /\ calls' = [calls EXCEPT ![i].code = 500, ![i].pc = "done"]
            /\ UNCHANGED messages_col
       ELSE /\ messages_col' = insert_one(messages_col, ApiDoc(calls[i]))
            /\ calls' = [calls EXCEPT ![i].pc = "fetch", ![i].wrote = TRUE]
    /\ ApiFrame

\* db_insert_message: find_one gives the saved document
FetchStep(i) ==
    /\ Running(i)
    /\ calls[i].pc = "fetch"
    /\ LET saved == messages_col[find_one(messages_col, calls[i].mid)]
       IN calls' = [calls EXCEPT
            ![i].pc = "emit",
            ![i].cur = saved.status,
            ![i].found = TRUE,
            ![i].event = "new_message",
            ![i].room = saved.wa_id]
    /\ UNCHANGED messages_col
    /\ ApiFrame

\* sio.emit returns and the handler answers with success
EmitStep(i) ==
    /\ Running(i)
    /\ calls[i].pc = "emit"
    /\ calls' = [calls EXCEPT ![i].code = 200, ![i].pc = "done",
                               ![i].emits = calls[i].emits + 1]
    /\ UNCHANGED messages_col
    /\ ApiFrame

CallStep ==
    \E i \in 1..Len(calls) :
        \/ FindStep(i)
        \/ UpdateStep(i)
        \/ RefetchStep(i)
        \/ InsertStep(i)
        \/ FetchStep(i)
        \/ EmitStep(i)

NextApi ==
    \/ StartStatusCall
    \/ StartMessageCall
    \/ CallStep

\* calls arrive and run concurrently
SpecApi == InitApi /\ [][NextApi]_vars

NextApiSeq ==
    \/ AllDone /\ StartStatusCall
    \/ AllDone /\ StartMessageCall
    \/ CallStep

\* each call runs to its response before the next one arrives
SpecApiSeq == InitApi /\ [][NextApiSeq]_vars

\* sio.emit raises: the handler's "except Exception" answers HTTP 500
EmitFails ==
    \E i \in 1..Len(calls) :
        /\ Running(i)
        /\ calls[i].pc = "emit"
        /\ calls' = [calls EXCEPT ![i].code = 500, ![i].pc = "done",
                                   ![i].emits = calls[i].emits + 1]
        /\ UNCHANGED messages_col
        /\ ApiFrame

NextApiNotify ==
    \/ NextApi
    \/ EmitFails

\* the concurrent API with a notifier that may fail
SpecApiNotify == InitApi /\ [][NextApiNotify]_vars

----------------------------------------------------------------------------
(* A second run of the script on the same database.  It is the same code,    *)
(* so its loop body takes the same steps (Begin, Step) on its own locals;    *)
(* its files are drawn as it goes, at most MaxOther of them.                 *)

\* the files of runs that share the database or meet a failing store: the
\* messages of one id and the statuses to it
SharedFiles ==
    {p \in MessageFiles \cup StatusFiles :
        /\ p.meta_msg_id = "X"
        /\ p.status \in {"sent", "read"}
        /\ p.type = "message" => (p.wa_id = "c1" /\ p.timestamp = "t1")}

\* the other run takes the result r of a step of its body
OtherAdvance(r) ==
    /\ messages_col' = r.messages
    /\ pending_col' = r.pending
    /\ other' = r.body
    /\ ocount' = IF r.count = "none" THEN ocount ELSE [ocount EXCEPT ![r.count] = @ + 1]
    /\ UNCHANGED <<nfiles, idx, processed, skipped, errors, pc, last, prev, body,
                   unique_index>>
    /\ UNCHANGED <<apiVars, normVars, modelVars>>

\* the other run reads its next file and the first call answers
OtherBegin ==
    /\ other.pc = "idle"
    /\ nother < MaxOther
    /\ nother' = nother + 1
    /\ \E payload \in SharedFiles : OtherAdvance(Begin(messages_col, pending_col, payload))

\* the call the other run waits for answers
OtherStep ==
    /\ other.pc # "idle"
    /\ UNCHANGED nother
    /\ OtherAdvance(Step(messages_col, pending_col, other, unique_index = "built"))

----------------------------------------------------------------------------
(* process_path with a store that can fail: the awaited collection call      *)
(* raises, "except Exception" counts the file as an error and the loop goes *)
(* on. What the calls before it did stays done.                              *)

\* the awaited calls of the loop body
StoreOps == {"find_message", "insert", "find_pending", "update", "delete", "upsert"}

\* the first call of the body raises: find_one for a message, update_one for
\* a status
BeginFails(payload) ==
    /\ InLoop
    /\ payload.meta_msg_id # None
    /\ Advance(Result(messages_col, pending_col, Idle,
                      IF payload.type = "message" THEN "find_message" ELSE "update",
                      "errors"),
               payload.type, payload.meta_msg_id, payload.status)

\* a failure that ends the batch
StepFails_AbortsBatch ==
    /\ pc = "loop"
    /\ body.pc # "idle"
    /\ idx' = idx + 1
    /\ errors' = errors + 1
    /\ body' = Idle
    /\ pc' = "done"
    /\ last' = [type |-> body.type, mid |-> body.mid, status |-> body.status,
                out |-> body.pc]
    /\ prev' = last
    /\ UNCHANGED <<messages_col, pending_col, nfiles, processed, skipped>>
    /\ UNCHANGED <<apiVars, normVars, otherVars, modelVars>>

\* the call the body waits for raises: errors += 1, next file
StepFails ==
    /\ pc = "loop"
    /\ body.pc # "idle"
    /\ Advance(Result(messages_col, pending_col, Idle, body.pc, "errors"),
               body.type, body.mid, body.status)

IngestOk == \E payload \in SharedFiles : BeginFile(payload)

StoreFailure ==
    \/ \E payload \in SharedFiles : BeginFails(payload)
    \/ StepFails

\* a call of the other run raises: the first call of a file, or the call its
\* body waits for; its except clause counts the file as an error
OtherFails ==
    /\ \/ /\ other.pc = "idle"
          /\ nother < MaxOther
          /\ nother' = nother + 1
       \/ /\ other.pc # "idle"
          /\ UNCHANGED nother
    /\ OtherAdvance(Result(messages_col, pending_col, Idle, "ERROR", "errors"))

NextFail ==
    \/ ListFiles
    \/ InvalidPath
    \/ ReadError
    \/ SkipUnknown
    \/ IngestOk
    \/ StepBody
    \/ StoreFailure
    \/ Summary

NextFailShared ==
    \/ NextFail
    \/ OtherBegin
    \/ OtherStep
    \/ OtherFails

\* a batch run against a store whose calls may fail, while a second run works
\* on the same store
SpecFail == Init /\ [][NextFailShared]_vars

\* the batch alone, run to its end: asyncio.run drives the one coroutine of
\* process_path until it returns, so a step that can be taken is taken
SpecRun == Init /\ [][NextFail]_vars /\ WF_vars(NextFail)

----------------------------------------------------------------------------
(* The unique index, and models.py: MessageModel.  The constructor asks for *)
(* the unique index (setup_indexes) without awaiting it, so the methods run *)
(* on a collection that has the index, is getting it, or failed to get it.  *)

\* no id is stored twice: a unique index on meta_msg_id can be built
NoDuplicates(col) == \A mid \in Ids : CountOf(col, mid) <= 1

\* MessageModel(db): setup_indexes calls create_indexes and does not await it,
\* so the methods may be called while the index is not there yet
MessageModel_init ==
    /\ unique_index \in {"none", "failed"}
    /\ unique_index' = "building"
    /\ UNCHANGED <<messages_col, pending_col, nfiles, idx, processed, skipped, errors, pc,
                   last, prev, body, other, nother, ocount>>
    /\ UNCHANGED <<apiVars, normVars, modelVars>>

\* the build that setup_indexes started ends: the index is there, or the build
\* fails on an id stored twice and nobody is told
create_indexes ==
    /\ unique_index = "building"
    /\ unique_index' = IF NoDuplicates(messages_col) THEN "built" ELSE "failed"
    /\ UNCHANGED <<messages_col, pending_col, nfiles, idx, processed, skipped, errors, pc,
                   last, prev, body, other, nother, ocount>>
    /\ UNCHANGED <<apiVars, normVars, modelVars>>

\* main.py startup_db_client: the server awaits create_index(unique) before it
\* serves a call; on a collection that holds an id twice the call raises and
\* the server does not start
startup_db_client ==
    /\ unique_index # "built"
    /\ NoDuplicates(messages_col)
    /\ unique_index' = "built"
    /\ UNCHANGED <<messages_col, pending_col, nfiles, idx, processed, skipped, errors, pc,
                   last, prev, body, other, nother, ocount>>
    /\ UNCHANGED <<apiVars, normVars, modelVars>>

\* the statuses update_message_status is called with; it checks none
ModelStatuses == {"sent", "bogus"}

\* the message_data insert_message is called with; None is a missing key
ModelDocs ==
    {[wa_id |-> "c1", text |-> "yo", meta_msg_id |-> mid, direction |-> d,
      status |-> s, timestamp |-> None] :
        mid \in ApiIds, d \in {None}, s \in {"sent", "bogus"}}

\* MessageModel.insert_message: timestamp = utcnow(), insert_one, return the
\* inserted id; the index, once built, makes insert_one raise
\* DuplicateKeyError for an id that is stored.  The calls are followed while
\* the collection holds fewer than MaxStored documents
insert_message ==
    /\ unique_index # "none"
    /\ Len(messages_col) < MaxStored
    /\ \E message_data \in ModelDocs :
         IF unique_index = "built" /\ Has(messages_col, message_data.meta_msg_id)
         THEN /\ returned' = [method |-> "insert_message", raised |-> TRUE,
                              modified_count |-> 0]
              /\ UNCHANGED messages_col
         ELSE /\ returned' = [method |-> "insert_message", raised |-> FALSE,
                              modified_count |-> 0]
              /\ messages_col' = insert_one(messages_col,
                                            [message_data EXCEPT !.timestamp = "utcnow"])
    /\ UNCHANGED <<pending_col, nfiles, idx, processed, skipped, errors, pc, last, prev,
                   body>>
    /\ UNCHANGED <<apiVars, normVars, otherVars>>

\* MessageModel.update_message_status: update_one($set status), no check of
\* the transition or of the value; returns modified_count
update_message_status ==
    /\ unique_index # "none"
    /\ \E meta_msg_id \in ApiIds, new_status \in ModelStatuses :
         /\ messages_col' = update_one_status(messages_col, meta_msg_id, new_status)
         /\ returned' = [method |-> "update_message_status", raised |-> FALSE,
                         modified_count |->
                             modified_count(messages_col, meta_msg_id, new_status)]
    /\ UNCHANGED <<pending_col, nfiles, idx, processed, skipped, errors, pc, last, prev,
                   body>>
    /\ UNCHANGED <<apiVars, normVars, otherVars>>

NextModel ==
    \/ MessageModel_init
    \/ create_indexes
    \/ insert_message
    \/ update_message_status

----------------------------------------------------------------------------
(* The writers together on one database: a run of the script and, working  *)
(* between its awaits, either the API or a second run and MessageModel.  On *)
(* a fresh database the collection has no unique index; the server builds   *)
(* it before it serves, MessageModel asks for it and goes on.               *)

InitShared ==
    /\ messages_col = <<>>
    /\ pending_col = <<>>
    /\ nfiles = 0
    /\ idx = 0
    /\ processed = 0
    /\ skipped = 0
    /\ errors = 0
    /\ pc = "start"
    /\ last = NoLast
    /\ prev = NoLast
    /\ body = Idle
    /\ unique_index \in {"none", "built"}
    /\ other = Idle
    /\ nother = 0
    /\ ocount = NoCount
    /\ returned = NoReturn
    /\ calls = <<>>
    /\ raw = JNull
    /\ normalized = JNull

IngestShared == \E payload \in SharedFiles : BeginFile(payload)

NextShared ==
    \/ ListFiles
    \/ InvalidPath
    \/ IngestShared
    \/ StepBody
    \/ Summary
    \/ (calls = <<>> /\ OtherBegin)
    \/ OtherStep
    \/ startup_db_client
    \/ (unique_index = "built" /\ nother = 0 /\ returned = NoReturn /\ StartStatusCall)
    \/ (unique_index = "built" /\ nother = 0 /\ returned = NoReturn /\ StartMessageCall)
    \/ (unique_index = "built" /\ CallStep)
    \/ (calls = <<>> /\ NextModel)

SpecShared == InitShared /\ [][NextShared]_vars

----------------------------------------------------------------------------
(* Every writer of the message collection, one at a time: a batch run of    *)
(* process_path, or the API or MessageModel serving their store (the store  *)
(* an empty batch leaves is the empty store they may start from)            *)

InitStore == Init \/ InitApi

NextStore ==
    \/ Next
    \/ (pc = "done" /\ nfiles = 0 /\ startup_db_client)
    \/ (pc = "done" /\ nfiles = 0 /\ unique_index = "built" /\ returned = NoReturn /\ NextApi)
    \/ (pc = "done" /\ nfiles = 0 /\ calls = <<>> /\ NextModel)

SpecStore == InitStore /\ [][NextStore]_vars

----------------------------------------------------------------------------
(* normalize_webhook_payload on its own: one call per behaviour *)

\* no call has returned yet
NotCalled == [t |-> "pending", v |-> 0]

InitNorm ==
    /\ messages_col = <<>>
    /\ pending_col = <<>>
    /\ nfiles = 0
    /\ idx = 0
    /\ processed = 0
    /\ skipped = 0
    /\ errors = 0
    /\ pc = "done"
    /\ last = NoLast
    /\ prev = NoLast
    /\ body = Idle
    /\ unique_index = "none"
    /\ other = Idle
    /\ nother = 0
    /\ ocount = NoCount
    /\ returned = NoReturn
    /\ calls = <<>>
    /\ raw \in RawPayloads
    /\ normalized = NotCalled

\* the call runs to its return, or to the exception that leaves it
Normalize ==
    /\ normalized = NotCalled
    /\ normalized' = normalize_webhook_payload(raw)
    /\ UNCHANGED <<messages_col, pending_col, nfiles, idx, processed, skipped, errors,
                   pc, last, prev, body, unique_index, other, nother, ocount, returned,
                   calls, raw>>

NextNorm == Normalize

SpecNorm == InitNorm /\ [][NextNorm]_vars

----------------------------------------------------------------------------
(* Steps and transitions, as the claims speak of them *)

\* the step just taken handled a message / status payload naming mid
\* the collections as they were when the run took up the file it is handling
StartMessages == IF body.pc = "idle" THEN messages_col ELSE body.m0
StartPending == IF body.pc = "idle" THEN pending_col ELSE body.p0

\* this step ends the handling of a message (status) file of id mid
MessageStep(mid) == idx' = idx + 1 /\ last'.type = "message" /\ last'.mid = mid
StatusStep(mid) == idx' = idx + 1 /\ last'.type = "status" /\ last'.mid = mid

\* the status a message payload gives its record at insertion
InitialStatus(s) == IF s = None THEN "delivered" ELSE s

\* the transition table of the specification
LegalPairs == {<<"sent", "delivered">>, <<"sent", "read">>, <<"delivered", "read">>}

Legal(cur, new) == <<cur, new>> \in LegalPairs

----------------------------------------------------------------------------
(* Claims about process_path (specification Spec) *)

\* C1: a StatusEvent for an id that has a record changes the stored status only
\* along sent->delivered, sent->read, delivered->read: read is never left, and a
\* delivered record that receives StatusEvent(sent) stays delivered.
C1_StatusOnlyLegalTransitions ==
    [][\A mid \in Ids :
         (StatusStep(mid) /\ Has(StartMessages, mid)) =>
            \/ StatusOf(messages_col', mid) = StatusOf(StartMessages, mid)
            \/ Legal(StatusOf(StartMessages, mid), StatusOf(messages_col', mid))]_vars

\* C2: a MessageEvent that finds a pending entry applies it only when the
\* transition from the record's current status is legal; otherwise the entry is
\* deleted and the record's status stays what it was.
C2_DrainValidatesTransition ==
    [][\A mid \in Ids :
         (MessageStep(mid) /\ Has(StartPending, mid)) =>
            LET cur == IF Has(StartMessages, mid)
                       THEN StatusOf(StartMessages, mid)
                       ELSE InitialStatus(last'.status)
                want == PendingOf(StartPending, mid)
            IN /\ ~Has(pending_col', mid)
               /\ StatusOf(messages_col', mid) = IF Legal(cur, want) THEN want ELSE cur]_vars

\* the stored status of mid after payload second is handled in the store that
\* handling a first payload left
Then(first, second, mid) ==
    StatusOf(Handle(first.messages, first.pending, second).messages, mid)

\* C3: from a store with no record and no pending entry for an id, StatusEvent
\* then MessageEvent leaves the same stored status as MessageEvent then
\* StatusEvent, for every status of either event (delivered for
\* StatusEvent(delivered)).  The stores tried are those a batch ends with; every
\* store the loop passes through is the end of the batch that stops there.
C3_OrderIndependence ==
    \A mid \in Ids :
        (pc = "done" /\ ~Has(messages_col, mid) /\ ~Has(pending_col, mid)) =>
            \A s \in {p \in StatusPayloads : p.meta_msg_id = mid} :
                LET statusFirst == Handle(messages_col, pending_col, s)
                IN \A m \in {p \in MessagePayloads : p.meta_msg_id = mid} :
                      LET messageFirst == Handle(messages_col, pending_col, m)
                          final == Then(statusFirst, m, mid)
                      IN /\ final = Then(messageFirst, s, mid)
                         /\ s.status = "delivered" => final = "delivered"

\* status first, then a message that starts at sent: the record ends delivered
C3_Witness ==
    /\ prev.type = "status" /\ prev.mid = "X" /\ prev.status = "delivered"
    /\ prev.out = "PENDING"
    /\ last.type = "message" /\ last.mid = "X" /\ last.status = "sent"
    /\ last.out = "INSERTED_APPLIED"
    /\ StatusOf(messages_col, "X") = "delivered"

\* the drain update of the loop body b answers in this step, for id mid
Applies(b, bnext, mid) == b.pc = "update" /\ bnext.pc = "delete" /\ b.mid = mid

\* C4: in a run of process_path a buffered status is applied at most once. A
\* MessageEvent for an id whose status is buffered applies it and deletes the
\* entry (for an id without record the stored status becomes the buffered one,
\* read for a buffered read); a MessageEvent for an id with nothing buffered
\* applies nothing and leaves the buffer, and the record when there is one,
\* as they were; the drain applies a status only while its entry is buffered.
C4_BufferDrainsOnce ==
    [][\A mid \in Ids :
         /\ MessageStep(mid) =>
              /\ ~Has(pending_col', mid)
              /\ Has(StartPending, mid) =>
                   /\ last'.out \in {"INSERTED_APPLIED", "DUPLICATE_APPLIED"}
                   /\ ~Has(StartMessages, mid) =>
                        StatusOf(messages_col', mid) = PendingOf(StartPending, mid)
              /\ ~Has(StartPending, mid) =>
                   /\ last'.out \in {"INSERTED", "DUPLICATE"}
                   /\ pending_col' = StartPending
                   /\ Has(StartMessages, mid) => messages_col' = StartMessages
         /\ Applies(body, body', mid) =>
              /\ Has(pending_col, mid)
              /\ body.pend = PendingOf(pending_col, mid)]_vars

\* read was buffered for X; the MessageEvent for X was stored and took it, and
\* the same MessageEvent again ended as a plain duplicate
C4_Witness ==
    /\ prev.type = "message" /\ prev.mid = "X" /\ prev.out = "INSERTED_APPLIED"
    /\ last.type = "message" /\ last.mid = "X" /\ last.out = "DUPLICATE"
    /\ last.status = prev.status
    /\ StatusOf(messages_col, "X") = "read"
    /\ ~Has(pending_col, "X")

\* C5: after any sequence of files handled by process_path there is one record
\* per ingested externalId: no id is ever stored twice, a handled MessageEvent
\* leaves exactly one record for its id and ends as an insertion or as a
\* duplicate, and when the id was stored already it takes the duplicate path
\* and leaves wa_id, text, direction and timestamp of the record as they were.
C5_OneRecordPerId ==
    [][\A mid \in Ids :
         /\ CountOf(messages_col', mid) <= 1
         /\ MessageStep(mid) =>
              /\ CountOf(messages_col', mid) = 1
              /\ last'.out \in {"INSERTED", "INSERTED_APPLIED",
                                "DUPLICATE", "DUPLICATE_APPLIED"}
              /\ Has(StartMessages, mid) =>
                   LET old == StartMessages[find_one(StartMessages, mid)]
                       new == messages_col'[find_one(messages_col', mid)]
                   IN /\ last'.out \in {"DUPLICATE", "DUPLICATE_APPLIED"}
                      /\ Len(messages_col') = Len(StartMessages)
                      /\ new.wa_id = old.wa_id
                      /\ new.text = old.text
                      /\ new.direction = old.direction
                      /\ new.timestamp = old.timestamp
                      /\ new.meta_msg_id = old.meta_msg_id]_vars

\* X was stored by one MessageEvent and delivered again: one record, and the
\* second delivery took the duplicate path
C5_Witness ==
    /\ prev.type = "message" /\ prev.mid = "X" /\ prev.out = "INSERTED"
    /\ last.type = "message" /\ last.mid = "X" /\ last.out = "DUPLICATE"
    /\ CountOf(messages_col, "X") = 1
    /\ Len(messages_col) = 1

\* C6: a StatusEvent for an id with no record is buffered, never dropped: after
\* it the buffer holds exactly one entry for the id, carrying that event's
\* status; and the buffer never holds two entries for an id.
C6_BufferedLastWriteWins ==
    [][\A mid \in Ids :
         /\ CountOf(pending_col', mid) <= 1
         /\ (StatusStep(mid) /\ ~Has(StartMessages, mid)) =>
              /\ CountOf(pending_col', mid) = 1
              /\ PendingOf(pending_col', mid) = last'.status
              /\ last'.out = "PENDING"
              /\ messages_col' = StartMessages]_vars

\* two StatusEvents for an unseen id: the buffer holds the later one's status
C6_Witness ==
    /\ prev.type = "status" /\ prev.mid = "X" /\ prev.status = "read"
    /\ prev.out = "PENDING"
    /\ last.type = "status" /\ last.mid = "X" /\ last.status = "delivered"
    /\ last.out = "PENDING"
    /\ ~Has(messages_col, "X")
    /\ CountOf(pending_col, "X") = 1
    /\ PendingOf(pending_col, "X") = "delivered"

\* C7: after every completed event no externalId has both a message record and
\* a pending-status entry.
C7_NoPendingForStoredMessage ==
    body.pc = "idle" =>
        \A mid \in Ids : ~(Has(messages_col, mid) /\ Has(pending_col, mid))

----------------------------------------------------------------------------
(* Claims about the API (specifications SpecApi and SpecApiSeq) *)

\* call i leaves the await named at in this step
Leaves(i, at) == i \in 1..Len(calls) /\ calls[i].pc = at /\ calls'[i].pc # at

\* C8: concurrent status updates of one id behave as some serial order of the
\* calls: a stored status only moves along a legal transition (never read
\* followed by delivered), and no call answers "Message not found" (404) for a
\* message that exists.
C8_StatusUpdatesAtomicPerId ==
    [][/\ \A mid \in ApiIds :
            (Has(messages_col, mid)
               /\ StatusOf(messages_col', mid) # StatusOf(messages_col, mid)) =>
                 Legal(StatusOf(messages_col, mid), StatusOf(messages_col', mid))
       /\ \A i \in 1..Len(calls) :
            (calls[i].kind \in StatusKinds /\ calls[i].pc # "done"
               /\ calls'[i].pc = "done" /\ calls'[i].code = 404) =>
                 ~Has(messages_col, calls[i].mid)]_vars

\* C9: when calls do not interleave, every update db_update_message_status
\* makes is one of sent->delivered, sent->read, delivered->read (so never a
\* self-loop, never out of read), and a stored status changes in no other way.
C9_SequentialStatusStateMachine ==
    [][/\ \A i \in 1..Len(calls) :
            Leaves(i, "update") =>
               /\ Legal(StatusOf(messages_col, calls[i].mid), calls[i].status)
               /\ StatusOf(messages_col', calls[i].mid) = calls[i].status
       /\ \A mid \in ApiIds :
            (Has(messages_col, mid)
               /\ StatusOf(messages_col', mid) # StatusOf(messages_col, mid)) =>
                 /\ Legal(StatusOf(messages_col, mid), StatusOf(messages_col', mid))
                 /\ \E i \in 1..Len(calls) : Leaves(i, "update") /\ calls[i].mid = mid]_vars

\* a status call took X from delivered to read and answered with success
C9_Witness ==
    \E i \in 1..Len(calls) :
        /\ calls[i].kind \in StatusKinds
        /\ calls[i].mid = "X" /\ calls[i].status = "read" /\ calls[i].cur = "delivered"
        /\ calls[i].pc = "done" /\ calls[i].code = 200
        /\ StatusOf(messages_col, "X") = "read"

\* the lookup of webhook status call i finds a record for which the requested
\* transition is illegal
IllegalWebhookStatus(i) ==
    /\ Leaves(i, "find")
    /\ calls[i].kind = "webhook_status"
    /\ Has(messages_col, calls[i].mid)
    /\ ~Legal(StatusOf(messages_col, calls[i].mid), calls[i].status)

\* C10: an illegal status event on POST /webhook is silently
\* absorbed: the record is not mutated, nothing is emitted, and the caller gets
\* no error.
C10_IllegalStatusSilentlyAbsorbed ==
    [][\A i \in 1..Len(calls) :
         IllegalWebhookStatus(i) =>
            /\ messages_col' = messages_col
            /\ calls'[i].event = None
            /\ calls'[i].pc = "done"
            /\ calls'[i].code < 400]_vars

\* C11: a message event on POST /webhook or POST /messages whose id already has
\* a record is not an error: the call reports a duplicate and not a failure,
\* the record stays as it was, and no new_message is emitted.
C11_DuplicateMessageIsNotAnError ==
    [][\A i \in 1..Len(calls) :
         (Leaves(i, "insert") /\ calls[i].kind \in MessageKinds
            /\ Has(messages_col, calls[i].mid)) =>
               /\ messages_col' = messages_col
               /\ calls'[i].event = None
               /\ calls'[i].pc = "done"
               /\ calls'[i].code < 400]_vars

\* C12: a status event on POST /webhook for an id without record is not an
\* error and is not lost: the call does not fail and the requested status is
\* kept in the pending buffer for the message to come.
C12_StatusForMissingMessageIsBuffered ==
    [][\A i \in 1..Len(calls) :
         (Leaves(i, "find") /\ calls[i].kind = "webhook_status"
            /\ ~Has(messages_col, calls[i].mid)) =>
               /\ calls'[i].pc = "done"
               /\ calls'[i].code < 400
               /\ PendingOf(pending_col', calls[i].mid) = calls[i].status]_vars

WebhookKinds == {"webhook_message", "webhook_status"}

\* C13: a POST /webhook call emits at most once, only after its own store
\* operation inserted a record or changed a status, and it has emitted once by
\* the time it answers whenever it did so; a call that changed nothing
\* (rejected transition, missing message, failed or duplicate insert) emits
\* nothing.
C13_NotifyExactlyOncePerChange ==
    \A i \in 1..Len(calls) :
        calls[i].kind \in WebhookKinds =>
            /\ calls[i].emits <= 1
            /\ calls[i].emits = 1 => calls[i].wrote
            /\ calls[i].event # None => calls[i].wrote
            /\ calls[i].pc = "done" => calls[i].emits = (IF calls[i].wrote THEN 1 ELSE 0)
            /\ calls[i].wrote =>
                 calls[i].event = (IF calls[i].kind = "webhook_message"
                                   THEN IF calls[i].pc = "fetch" THEN None ELSE "new_message"
                                   ELSE "status_update")

\* one webhook call applied a status and notified once, another was rejected
\* and notified nobody
C13_Witness ==
    \E i, j \in 1..Len(calls) :
        /\ calls[i].kind = "webhook_status" /\ calls[i].pc = "done"
        /\ calls[i].wrote /\ calls[i].emits = 1 /\ calls[i].event = "status_update"
        /\ calls[j].kind = "webhook_status" /\ calls[j].pc = "done"
        /\ calls[j].code = 400 /\ ~calls[j].wrote /\ calls[j].emits = 0

\* C14: a failing notifier never turns an ingestion into a failure: a call
\* whose store write succeeded answers with success.
C14_NotifierFailureIsIsolated ==
    \A i \in 1..Len(calls) :
        (calls[i].pc = "done" /\ calls[i].wrote) => calls[i].code = 200


\* C15: a file whose payload is not recognized changes neither collection,
\* is counted once as skipped (not as processed, not as an error) and leaves
\* the batch in its loop, so the files after it are still handled.
C15_UnrecognizedPayloadIsSkipped ==
    [][ (idx' = idx + 1 /\ last'.out = "SKIP_UNKNOWN")
          => /\ messages_col' = messages_col
             /\ pending_col' = pending_col
             /\ skipped' = skipped + 1
             /\ processed' = processed
             /\ errors' = errors
             /\ pc' = "loop" ]_vars

\* an unrecognized file was skipped and the file after it was stored
C15_Witness ==
    /\ prev.out = "SKIP_UNKNOWN"
    /\ last.out = "INSERTED"
    /\ skipped = 1
    /\ Len(messages_col) = 1
    /\ MessagePayloads \subseteq MessageFiles
    /\ \E r \in UnknownFiles : r.t = "dict" /\ "metaData" \in DOMAIN r.v


\* C16: no step of process_path or of the API handlers deletes a message
\* record or changes anything but its status: every record is still there
\* afterwards with the same wa_id, text, direction, meta_msg_id and timestamp,
\* and the stored ids never shrink.
C16_RecordsKeptStatusOnlyMutated ==
    [][ /\ Len(messages_col') >= Len(messages_col)
        /\ \A i \in 1..Len(messages_col) :
              \E j \in 1..Len(messages_col') :
                 [messages_col'[j] EXCEPT !.status = messages_col[i].status] = messages_col[i]
        /\ {messages_col[i].meta_msg_id : i \in 1..Len(messages_col)}
              \subseteq {messages_col'[j].meta_msg_id : j \in 1..Len(messages_col')} ]_vars

\* a stored record went from sent to read by a status payload, all else kept
C16_Witness ==
    /\ prev.out = "INSERTED" /\ prev.status = "sent" /\ prev.mid = "X"
    /\ last.out = "UPDATED" /\ last.status = "read" /\ last.mid = "X"
    /\ Len(messages_col) = 1
    /\ messages_col[1].status = "read"
    /\ messages_col[1].text = "hi"
    /\ messages_col[1].wa_id = "c1"


----------------------------------------------------------------------------
(* What the parser is expected to select, read off the document itself *)

\* j[k] where j is a mapping holding k, null otherwise
At(j, k) == IF j.t = "dict" /\ k \in DOMAIN j.v THEN j.v[k] ELSE JNull

\* the first element of a non-empty list, null otherwise
First(j) == IF j.t = "list" /\ Len(j.v) > 0 THEN j.v[1] ELSE JNull

NonEmptyList(j) == j.t = "list" /\ Len(j.v) > 0

\* entry[0].changes[0].value of an envelope
ValueAt(e) == At(First(At(First(At(e, "entry")), "changes")), "value")

\* the value of the envelope under metaData, else under meta_data
ValueUnderMeta(r) ==
    IF Truthy(At(r, "metaData")) THEN ValueAt(At(r, "metaData"))
    ELSE ValueAt(At(r, "meta_data"))

\* the value of the envelope wherever the document holds one
ValueAnywhere(r) ==
    IF ValueUnderMeta(r) # JNull THEN ValueUnderMeta(r) ELSE ValueAt(r)

IsCanonical(r) == At(r, "type") \in {JStr("message"), JStr("status")}

\* n is the message event built from the element m
IsMessageEvent(n, m) ==
    /\ At(n, "type") = JStr("message")
    /\ At(n, "meta_msg_id") = (IF Truthy(At(m, "id")) THEN At(m, "id") ELSE At(m, "mid"))
    /\ At(n, "text") = (IF At(m, "text").t = "dict" THEN At(At(m, "text"), "body")
                        ELSE IF At(m, "message").t = "dict" THEN At(At(m, "message"), "body")
                        ELSE JStr(""))

\* n is the status event built from the element st
IsStatusEvent(n, st) ==
    /\ At(n, "type") = JStr("status")
    /\ At(n, "meta_msg_id") = At(st, "id")
    /\ At(n, "status") = At(st, "status")

\* C17 as stated: canonical payloads pass through unchanged; otherwise a
\* non-empty messages list at entry[0].changes[0].value gives the message
\* event of its first element, else a non-empty statuses list gives the status
\* event of its first element, else the result is None.
C17_SelectsVariantAsStated ==
    normalized # NotCalled =>
        LET value == ValueAnywhere(raw)
        IN IF IsCanonical(raw) THEN normalized = raw
           ELSE IF NonEmptyList(At(value, "messages"))
                THEN IsMessageEvent(normalized, First(At(value, "messages")))
           ELSE IF NonEmptyList(At(value, "statuses"))
                THEN IsStatusEvent(normalized, First(At(value, "statuses")))
           ELSE normalized = JNull

\* C17, amended: canonical payloads pass through unchanged; otherwise the
\* envelope is looked for under metaData (or meta_data) only. There, a
\* non-empty messages member gives the message event of its first element when
\* that element and the first contact, if any, are mappings, and None when
\* they are not (statuses are not consulted); else a non-empty statuses member
\* gives the status event of its first element when it is a mapping, and None
\* when it is not; else the result is None.
C17_SelectsVariantUnderMetaData ==
    normalized # NotCalled =>
        LET value == ValueUnderMeta(raw)
            messages == At(value, "messages")
            statuses == At(value, "statuses")
            contacts == At(value, "contacts")
        IN IF IsCanonical(raw) THEN normalized = raw
           ELSE IF Truthy(messages)
                THEN IF /\ NonEmptyList(messages)
                        /\ First(messages).t = "dict"
                        /\ (Truthy(contacts) => First(contacts).t = "dict")
                     THEN IsMessageEvent(normalized, First(messages))
                     ELSE normalized = JNull
           ELSE IF Truthy(statuses)
                THEN IF NonEmptyList(statuses) /\ First(statuses).t = "dict"
                     THEN IsStatusEvent(normalized, First(statuses))
                     ELSE normalized = JNull
           ELSE normalized = JNull

\* an envelope holding both a message and a status came out as the message
C17_Witness ==
    /\ normalized # NotCalled
    /\ ~IsCanonical(raw)
    /\ NonEmptyList(At(ValueUnderMeta(raw), "statuses"))
    /\ At(normalized, "type") = JStr("message")
    /\ At(normalized, "meta_msg_id") = JStr("Y")
    /\ At(normalized, "text") = JStr("yo")


\* C18: whatever the shape of the input, the call returns: its result is None
\* or an event of type message or status, never an exception; a document whose
\* envelope cannot be walked (not a mapping, empty or missing entry/changes,
\* an intermediate value of the wrong type) gives None.
C18_NormalizeNeverRaises ==
    normalized # NotCalled =>
        /\ normalized # Raise
        /\ \/ normalized = JNull
           \/ /\ normalized.t = "dict"
              /\ At(normalized, "type") \in {JStr("message"), JStr("status")}
        /\ (raw \in MalformedFiles \/ raw.t # "dict") => normalized = JNull
        /\ (~IsCanonical(raw) /\ ~NonEmptyList(At(ValueUnderMeta(raw), "messages"))
               /\ ~NonEmptyList(At(ValueUnderMeta(raw), "statuses")))
             => normalized = JNull

\* an envelope whose entry list is empty came back as None
C18_Witness ==
    /\ raw = JDict([metaData |-> JDict([entry |-> JList(<<>>)])])
    /\ Envelope(At(raw, "metaData")) = Raise
    /\ normalized = JNull


\* C19: when a store call raises while a file is handled, that file is
\* counted as an error and nothing else is lost: the failed call is not run
\* again (the step writes nothing and leaves the file; with no other run on
\* the store, what the call would have written is absent and the pending
\* buffer is as it was), the loop stays on and moves to the next file, no file
\* is handled twice, and the summary is reached only after the last file.
C19_StoreFailureFatalToOneEvent ==
    [][ /\ idx' >= idx
        /\ pc' = "done" => idx' = nfiles'
        /\ (idx' = idx + 1 /\ last'.out \in StoreOps)
             => /\ errors' = errors + 1
                /\ pc' = "loop"
                /\ nfiles' = nfiles
                /\ body'.pc = "idle"
                /\ messages_col' = messages_col
                /\ pending_col' = pending_col
                /\ nother = 0 =>
                      /\ pending_col' = StartPending
                      /\ (last'.out \in {"find_message", "insert", "upsert"}
                            \/ last'.type = "status")
                           => messages_col' = StartMessages
                      /\ last'.out \in {"find_pending", "update", "delete"}
                           => Len(messages_col') <= Len(StartMessages) + 1 ]_vars

\* insert_one failed for a message; the next file, the same message sent
\* again by the caller, was stored
C19_Witness ==
    /\ prev.out = "insert" /\ prev.type = "message" /\ prev.mid = "X"
    /\ last.out = "INSERTED" /\ last.mid = "X"
    /\ errors = 1
    /\ processed = 1
    /\ Len(messages_col) = 1


\* the most collection calls the loop body can still make when it waits at
\* the given call (from the start of a file: five)
CallsLeft(at) ==
    CASE at = "idle" -> 5
      [] at = "insert" -> 4
      [] at = "find_pending" -> 3
      [] at = "update" -> 2
      [] at = "delete" -> 1
      [] at = "upsert" -> 1
      [] OTHER -> 0

\* C20: no step waits or comes back. A status whose message is absent is
\* buffered while its own file is handled (unless a store call raised);
\* after the list of files is built every step is one more call of the file
\* answering, or leaves the file for the next, or ends the loop; the list
\* never grows and no file is taken again; and every batch that has a list of
\* files reaches its summary (a path that gives none ends at "Invalid path").
C20_NoWaitingBatchTerminates ==
    /\ [][ /\ pc # "start" => nfiles' = nfiles
           /\ \/ (pc = "start" /\ pc' \in {"loop", "invalid"} /\ idx = 0 /\ idx' = 0
                    /\ body'.pc = "idle")
              \/ (idx' = idx + 1 /\ pc = "loop" /\ pc' = "loop" /\ idx < nfiles
                    /\ body'.pc = "idle")
              \/ (idx' = idx /\ pc = "loop" /\ pc' = "loop" /\ idx < nfiles
                    /\ body'.pc # "idle" /\ CallsLeft(body'.pc) < CallsLeft(body.pc))
              \/ (idx' = idx /\ idx = nfiles /\ pc = "loop" /\ pc' = "done"
                    /\ body.pc = "idle" /\ body'.pc = "idle")
           /\ \A mid \in Ids :
                 (StatusStep(mid) /\ ~Has(StartMessages, mid) /\ last'.out \notin StoreOps)
                   => /\ last'.out = "PENDING"
                      /\ Has(pending_col', mid)
                      /\ PendingOf(pending_col', mid) = last'.status
                      /\ messages_col' = StartMessages ]_vars
    /\ <>(pc = "invalid" \/ (pc = "done" /\ idx = nfiles))
    /\ [](pc = "loop" => <>(pc = "done" /\ idx = nfiles))

\* a batch of MaxFiles files ended; its last file was a status for a message
\* that was not there, buffered while the file was handled
C20_Witness ==
    /\ pc = "done"
    /\ idx = nfiles
    /\ nfiles = MaxFiles
    /\ last.out = "PENDING"
    /\ Has(pending_col, "X")
    /\ ~Has(messages_col, "X")


\* C21: in every store state a batch can reach, each message record has a
\* status among sent, delivered, read, whatever the payloads carried.
C21_StoredStatusIsInEnum ==
    \A i \in 1..Len(messages_col) :
        messages_col[i].status \in {"sent", "delivered", "read"}

\* C22: every status_update notification that was sent went to the room
\* named by the wa_id of the record whose status changed, for the PUT endpoint
\* and for webhook status events alike, whatever wa_id the event carried.
C22_StatusNotificationGoesToRecordRoom ==
    \A i \in 1..Len(calls) :
        (calls[i].event = "status_update" /\ calls[i].emits > 0)
          => /\ Has(messages_col, calls[i].mid)
             /\ calls[i].room = messages_col[find_one(messages_col, calls[i].mid)].wa_id

\* C23: at the summary the three counters add up to the number of files,
\* also when a store call failed after the file was counted as processed or
\* as skipped.
C23_EveryFileCountedOnce ==
    pc = "done" => processed + skipped + errors = nfiles

====================================================================
